---- MODULE Spec2Model ----
(***************************************************************************)
(* Model of serde_derive/src/de_in.rs: the derive macro for DeserializeIn. *)
(*                                                                         *)
(* Two phases are modelled.  Generation is expand_derive_deserialize_in    *)
(* with its helpers, run step by step on a type descriptor and producing a *)
(* token tree.  Decoding is the code the macro emits (the quoted text of   *)
(* deserialize_struct_named), interpreted over the token tree that         *)
(* generation produced and driven by an input that answers next_key and    *)
(* next_value requests.                                                    *)
(***************************************************************************)
EXTENDS Integers, Sequences, FiniteSets, TLC

VARIABLES
    input,        \* the derive input: the container as Container::from_ast sees it
    gpc,          \* position inside expand_derive_deserialize_in
    calls,        \* functions of de_in.rs entered so far, in call order
    alloc_param,  \* Option<Ident>: result of find_allocator_param
    body,         \* token tree of the deserialize_in function body
    impl_block,   \* token tree of the impl block or of the compile_error! item
    result,       \* what expand_derive_deserialize_in returned
    prev,         \* what the invocation before this one returned, on the same input
    dpc,          \* state of the emitted decoder (section 4.4 of the design)
    root_alloc,   \* the handle the caller passed to deserialize_in
    stack,        \* active visit_map frames, outermost first
    outcome,      \* Result returned to the caller of deserialize_in
    seeds,        \* every __Seed handed to next_value_seed, in order
    key_reqs,     \* number of next_key calls
    val_reqs,     \* number of next_value / next_value_seed calls
    struct_calls, \* arguments of each Deserializer::deserialize_struct call
    answer        \* what the input answered to the latest request made of it

gvars == <<input, gpc, calls, alloc_param, body, impl_block, result, prev>>
dvars == <<dpc, root_alloc, stack, outcome, seeds, key_reqs, val_reqs, struct_calls, answer>>
vars == <<input, gpc, calls, alloc_param, body, impl_block, result, prev,
          dpc, root_alloc, stack, outcome, seeds, key_reqs, val_reqs, struct_calls, answer>>

(***************************************************************************)
(* Bounds of the model.                                                    *)
(***************************************************************************)
MaxParams == 2
MaxFields == 2
MaxEntries == 3

(***************************************************************************)
(* Option<T> is a sequence of length at most one.                          *)
(***************************************************************************)
None == <<>>
Some(v) == <<v>>
IsSome(o) == o # <<>>
Unwrap(o) == o[1]

Last(s) == s[Len(s)]
Front(s) == SubSeq(s, 1, Len(s) - 1)
Range(s) == {s[i] : i \in DOMAIN s}

RECURSIVE SeqsUpTo(_, _)
SeqsUpTo(S, n) ==
    IF n <= 0 THEN {<<>>}
    ELSE LET shorter == SeqsUpTo(S, n - 1)
         IN shorter \cup {Append(s, e) : s \in {t \in shorter : Len(t) = n - 1}, e \in S}

Distinct(s, key(_)) == \A i, j \in DOMAIN s : i # j => key(s[i]) # key(s[j])

(***************************************************************************)
(* Type descriptors.                                                       *)
(***************************************************************************)
TraitBound(path) == [kind |-> "Trait", path |-> path]
LifetimeBound(l) == [kind |-> "Lifetime", path |-> <<l>>]

ParamPool ==
    { [kind |-> "Lifetime", ident |-> "'a", bounds |-> <<>>],
      [kind |-> "Const", ident |-> "N", bounds |-> <<>>],
      [kind |-> "Type", ident |-> "T", bounds |-> <<TraitBound(<<"Clone">>)>>],
      [kind |-> "Type", ident |-> "A",
       bounds |-> <<TraitBound(<<"Allocator">>), TraitBound(<<"Copy">>)>>],
      [kind |-> "Type", ident |-> "B",
       bounds |-> <<LifetimeBound("'a"), TraitBound(<<"core", "alloc", "Allocator">>)>>],
      [kind |-> "Type", ident |-> "M", bounds |-> <<TraitBound(<<"MyAllocator">>)>>] }

ParamIdent(p) == p.ident

GenericsPool == {g \in SeqsUpTo(ParamPool, MaxParams) : Distinct(g, ParamIdent)}

\* attr::Field::from_ast: the deserialize name is the rename value when one
\* is given and the field's own name otherwise.
MkField(ident, rename, ty) ==
    [ident |-> Some(ident),
     rename |-> rename,
     deserialize_name |-> IF IsSome(rename) THEN Unwrap(rename) ELSE ident,
     ty |-> ty]

MkUnnamedField(index, ty) ==
    [ident |-> None, rename |-> None, deserialize_name |-> index, ty |-> ty]

FieldPool ==
    { MkField("x", None, "i32"),
      MkField("x", Some("y"), "i32"),
      MkField("y", None, "i32"),
      MkField("y", None, "Inner") }

FieldName(f) == f.ident

NamedFieldLists == {fs \in SeqsUpTo(FieldPool, MaxFields) : Distinct(fs, FieldName)}

StructData(style, fields) == [kind |-> "Struct", style |-> style, fields |-> fields]
EnumData == [kind |-> "Enum", style |-> "Enum", fields |-> <<>>]

DataPool ==
    {StructData("Struct", fs) : fs \in NamedFieldLists}
      \cup { StructData("Unit", <<>>),
             StructData("Newtype", <<MkUnnamedField("0", "i32")>>),
             StructData("Tuple", <<MkUnnamedField("0", "i32"), MkUnnamedField("1", "Inner")>>),
             EnumData }

\* What Container::from_ast did: whether it returned a container and the
\* errors it recorded in the Ctxt on the way.
AstPool ==
    { [cont |-> TRUE, errors |-> <<>>],
      [cont |-> TRUE, errors |-> <<"e1">>],
      [cont |-> FALSE, errors |-> <<"e1">>],
      [cont |-> FALSE, errors |-> <<"e1", "e2">>] }

Descriptor(generics, data, ast) ==
    [ident |-> "Rec", generics |-> generics, data |-> data, ast |-> ast]

(***************************************************************************)
(* Token trees.                                                            *)
(***************************************************************************)
MsgEnum == "DeserializeIn for enums is not yet implemented"
\* (the source writes Allocator between backquotes, which a TLA+ string cannot hold)
MsgNoAllocBound == "DeserializeIn requires a type parameter with Allocator bound"
MsgNotNamed == "Only named structs are supported for DeserializeIn"
MsgAllocRequired == "alloc_param required"

NoTokens ==
    [kind |-> "none", msg |-> "",
     struct_name_str |-> "", seed |-> <<>>, field_enum |-> <<>>, field_match_arms |-> <<>>,
     visitor |-> <<>>, field_vars |-> <<>>, visit_map_arms |-> <<>>, ignore_arm |-> <<>>,
     field_unwraps |-> <<>>, fields_const |-> <<>>, struct_call |-> <<>>]

CompileError(msg) == [NoTokens EXCEPT !.kind = "compile_error", !.msg = msg]

IndexStr(i) == ToString(i - 1)
Variant(i) == "__Field" \o IndexStr(i)
Var(i) == "__field" \o IndexStr(i)
IgnoreVariant == "__ignore"

(***************************************************************************)
(* find_allocator_param: the first type parameter, in declaration order,   *)
(* one of whose trait bounds has a path whose last segment is Allocator.   *)
(***************************************************************************)
LastSegmentIsAllocator(path) ==
    IF path = <<>> THEN FALSE ELSE Last(path) = "Allocator"

HasAllocatorBound(param) ==
    /\ param.kind = "Type"
    /\ \E j \in DOMAIN param.bounds :
          /\ param.bounds[j].kind = "Trait"
          /\ LastSegmentIsAllocator(param.bounds[j].path)

\* (variant) a later parameter with the bound is preferred
RECURSIVE FindLastFrom(_, _)
FindLastFrom(params, i) ==
    IF i > Len(params) THEN None
    ELSE IF IsSome(FindLastFrom(params, i + 1)) THEN FindLastFrom(params, i + 1)
    ELSE IF HasAllocatorBound(params[i]) THEN Some(params[i].ident)
    ELSE None

RECURSIVE FindFrom(_, _)
FindFrom(params, i) ==
    IF i > Len(params) THEN None
    ELSE IF HasAllocatorBound(params[i]) THEN Some(params[i].ident)
    ELSE FindFrom(params, i + 1)

\* (variant) the first type parameter, whatever its bounds
RECURSIVE FirstTypeFrom(_, _)
FirstTypeFrom(params, i) ==
    IF i > Len(params) THEN None
    ELSE IF params[i].kind = "Type" THEN Some(params[i].ident)
    ELSE FirstTypeFrom(params, i + 1)

find_first_type_param(generics) == FirstTypeFrom(generics, 1)

find_allocator_param(generics) == FindFrom(generics, 1)

(***************************************************************************)
(* deserialize_struct_named: the pieces it computes and the text it quotes.*)
(***************************************************************************)
\* field_data: (ident, name_str, ty) per field, by position
FieldIdent(f, i) ==
    IF IsSome(f.ident) THEN Unwrap(f.ident) ELSE "__field" \o IndexStr(i)

field_data(fields) ==
    [i \in DOMAIN fields |->
        [ident |-> FieldIdent(fields[i], i),
         name_str |-> fields[i].deserialize_name,
         ty |-> fields[i].ty]]

field_enum_variants(fd) == [i \in DOMAIN fd |-> Variant(i)]

field_match_arms(fd) ==
    [i \in DOMAIN fd |-> [pat |-> fd[i].name_str, variant |-> Variant(i)]]

field_vars(fd) == [i \in DOMAIN fd |-> Var(i)]

\* stringify!(#ident): the text of the field's identifier
Stringify(ident) == ident

\* (variant) every arm stores into the variable of the first field
visit_map_arms_first_var(fd, alloc) ==
    [i \in DOMAIN fd |->
        [variant |-> Variant(i),
         var |-> Var(1),
         duplicate_field |-> Stringify(fd[i].ident),
         seed_ty |-> fd[i].ty,
         seed_alloc_ty |-> alloc]]

visit_map_arms(fd, alloc) ==
    [i \in DOMAIN fd |->
        [variant |-> Variant(i),
         var |-> Var(i),
         duplicate_field |-> Stringify(fd[i].ident),
         seed_ty |-> fd[i].ty,
         seed_alloc_ty |-> alloc]]

\* (variant) missing_field is given the field's identifier
field_unwraps_ident(fd) ==
    [i \in DOMAIN fd |->
        [ident |-> fd[i].ident, var |-> Var(i), missing_field |-> fd[i].ident]]

field_unwraps(fd) ==
    [i \in DOMAIN fd |->
        [ident |-> fd[i].ident, var |-> Var(i), missing_field |-> fd[i].name_str]]

field_names_array(fd) == [i \in DOMAIN fd |-> fd[i].name_str]

deserialize_struct_named(fields, alloc, struct_ident) ==
    IF ~IsSome(alloc) THEN CompileError(MsgAllocRequired)
    ELSE LET fd == field_data(fields)
             a == Unwrap(alloc)
         IN [kind |-> "decoder", msg |-> "",
             struct_name_str |-> struct_ident,
             seed |-> Some([passes |-> "self.alloc"]),
             field_enum |-> Append(field_enum_variants(fd), IgnoreVariant),
             field_match_arms |-> field_match_arms(fd),
             visitor |-> Some([param |-> a,
                               value_ty |-> [ident |-> struct_ident, args |-> <<a>>],
                               expecting |-> struct_ident]),
             field_vars |-> field_vars(fd),
             visit_map_arms |-> visit_map_arms(fd, a),
             ignore_arm |-> Some("IgnoredAny"),
             field_unwraps |-> field_unwraps(fd),
             fields_const |-> field_names_array(fd),
             struct_call |-> Some([name |-> struct_ident,
                                   fields |-> "__FIELDS",
                                   visitor_alloc |-> "__alloc"])]

deserialize_struct(style, fields, alloc, struct_ident) ==
    IF style = "Struct" THEN deserialize_struct_named(fields, alloc, struct_ident)
    ELSE CompileError(MsgNotNamed)

\* lines 26-33 of expand_derive_deserialize_in
BodyOf(cont, alloc) ==
    IF cont.data.kind = "Struct"
    THEN deserialize_struct(cont.data.style, cont.data.fields, alloc, cont.ident)
    ELSE CompileError(MsgEnum)

\* the functions of de_in.rs that computing the body enters
BodyCalls(cont) ==
    IF cont.data.kind = "Struct"
    THEN IF cont.data.style = "Struct"
         THEN <<"deserialize_struct", "deserialize_struct_named">>
         ELSE <<"deserialize_struct">>
    ELSE <<>>

(***************************************************************************)
(* The impl block (lines 35-72).                                           *)
(***************************************************************************)
NoImpl ==
    [kind |-> "none", msg |-> "", params |-> <<>>, trait_alloc |-> "",
     self_ty |-> [ident |-> "", args |-> <<>>], where_clause |-> <<>>,
     fn_alloc_ty |-> "", body |-> NoTokens]

other_params(generics, alloc_ident) ==
    LET Keep(p) == IF p.kind = "Type" THEN p.ident # alloc_ident ELSE TRUE
    IN SelectSeq(generics, Keep)

\* split_for_impl: the type's generic arguments are its parameters' names
ty_generics(generics) == [i \in DOMAIN generics |-> generics[i].ident]

ImplBlockOf(cont, alloc, fnbody) ==
    IF IsSome(alloc)
    THEN LET a == Unwrap(alloc)
             others == other_params(cont.generics, a)
         IN [kind |-> "impl", msg |-> "",
             params |-> <<"'__de">> \o [i \in DOMAIN others |-> others[i].ident] \o <<a>>,
             trait_alloc |-> a,
             self_ty |-> [ident |-> cont.ident, args |-> ty_generics(cont.generics)],
             where_clause |-> <<[param |-> a, bounds |-> <<"Allocator", "Copy">>]>>,
             fn_alloc_ty |-> a,
             body |-> fnbody]
    ELSE [NoImpl EXCEPT !.kind = "compile_error", !.msg = MsgNoAllocBound]

\* dummy::wrap_in_const_for_allocator_api: the block is placed in an
\* anonymous const item
WrapInConst(block) == [kind |-> "const", inner |-> block]

NoResult == [kind |-> "none", errors |-> <<>>, tokens |-> WrapInConst(NoImpl)]
OkResult(tokens) == [kind |-> "Ok", errors |-> <<>>, tokens |-> tokens]
ErrResult(errors) == [kind |-> "Err", errors |-> errors, tokens |-> WrapInConst(NoImpl)]

(***************************************************************************)
(* Decoding: values, errors and the input.                                 *)
(***************************************************************************)
Ok(v) == [ok |-> TRUE, value |-> Some(v), error |-> None]
Err(e) == [ok |-> FALSE, value |-> None, error |-> Some(e)]

\* de::Error::duplicate_field / missing_field, and an error the input made
DuplicateField(name) == [kind |-> "duplicate_field", name |-> name]
MissingField(name) == [kind |-> "missing_field", name |-> name]
InputError(id) == [kind |-> "input", name |-> id]

IntVal(n) == [tag |-> "int", n |-> n, name |-> "i32", fields |-> <<>>]
StructVal(name, fields) == [tag |-> "struct", n |-> 0, name |-> name, fields |-> fields]

\* What the input answers to next_key: a key string or an error of its own.
StrKey(s) == [tag |-> "str", s |-> s]
ErrKey(id) == [tag |-> "err", s |-> id]
KeyStrings == {"x", "y", "z"}
KeyAnswers == {StrKey(k) : k \in KeyStrings} \cup {ErrKey("e_key")}

\* What the input holds at a value position: an integer, a map, or something
\* it cannot read (it raises the error the token names).
Unread == [tag |-> "unread", n |-> 0, e |-> "", m |-> <<>>]
IntTok(n) == [tag |-> "int", n |-> n, e |-> "", m |-> <<>>]
BadTok(id) == [tag |-> "bad", n |-> 0, e |-> id, m |-> <<>>]
MapTok(entries) == [tag |-> "map", n |-> 0, e |-> "", m |-> entries]
ValueAnswers == {IntTok(1), IntTok(2), BadTok("e_syntax"), MapTok(<<>>)}

EndOfMap == [tag |-> "end", s |-> ""]
NoAnswer == [req |-> "none", ty |-> "", key |-> EndOfMap, val |-> Unread]
StructAnswer(ty, tok) == [req |-> "struct", ty |-> ty, key |-> EndOfMap, val |-> tok]
KeyAnswer(k) == [req |-> "key", ty |-> "__Field", key |-> k, val |-> Unread]
ValueAnswer(ty, tok) == [req |-> "value", ty |-> ty, key |-> EndOfMap, val |-> tok]

Entry(key, val) == [key |-> key, val |-> val]

RECURSIVE Size(_)
Size(entries) ==
    IF entries = <<>> THEN 0
    ELSE 1 + Size(Last(entries).val.m) + Size(Front(entries))

(***************************************************************************)
(* The emitted code, read off the token tree `art` of a decoder.           *)
(***************************************************************************)
\* __FieldVisitor::visit_str (lines 254-262): the first arm whose pattern is
\* the key, else __ignore
RECURSIVE MatchFrom(_, _, _)
MatchFrom(arms, v, i) ==
    IF i > Len(arms) THEN IgnoreVariant
    ELSE IF arms[i].pat = v THEN arms[i].variant
    ELSE MatchFrom(arms, v, i + 1)

visit_str(art, v) == MatchFrom(art.field_match_arms, v, 1)

\* match __key (lines 290-295): the arm of a field variant
ArmFor(art, variant) ==
    art.visit_map_arms[CHOOSE i \in DOMAIN art.visit_map_arms :
                           art.visit_map_arms[i].variant = variant]

\* (variant) the variables start out holding a default value
EmptySlotsDefault(art) == [v \in Range(art.field_vars) |-> Some(IntVal(0))]

\* #(#field_vars)* (line 287): one variable per field, each None
EmptySlots(art) == [v \in Range(art.field_vars) |-> None]

\* (variant) the seed is given a handle made afresh
CloneFresh(h) == "h0"

\* self.__alloc.clone() for an allocator handle, which is Copy
Clone(h) == h

\* __Seed::<#ty, #alloc_param> { alloc: self.__alloc.clone(), .. } (lines 184-187)
MkSeed(arm, visitor_alloc) == [ty |-> arm.seed_ty, alloc |-> Clone(visitor_alloc)]

\* DeserializeSeed for __Seed (lines 226-231) calling
\* DeserializeIn::deserialize_in(deserializer, self.alloc) of the field's
\* type: an integer type reads an integer, a record type asks for a map.
SeedDeserialize(seed, tok) ==
    IF tok.tag = "bad" THEN [kind |-> "err", r |-> Err(InputError(tok.e)), alloc |-> seed.alloc]
    ELSE IF tok.tag = "unread"
    THEN [kind |-> "err", r |-> Err(InputError("e_unread")), alloc |-> seed.alloc]
    ELSE IF seed.ty = "i32"
    THEN IF tok.tag = "int"
         THEN [kind |-> "value", r |-> Ok(IntVal(tok.n)), alloc |-> seed.alloc]
         ELSE [kind |-> "err", r |-> Err(InputError("e_type")), alloc |-> seed.alloc]
    ELSE IF tok.tag = "map"
         THEN [kind |-> "nested", r |-> Err(InputError("")), alloc |-> seed.alloc]
         ELSE [kind |-> "err", r |-> Err(InputError("e_type")), alloc |-> seed.alloc]

\* (variant) an unknown field is refused
IgnoredAnyDenied(tok) == Err(InputError("unknown_field"))

\* next_value::<IgnoredAny> (line 293): any readable value is consumed
IgnoredAny(tok) ==
    IF tok.tag = "bad" THEN Err(InputError(tok.e))
    ELSE IF tok.tag = "unread" THEN Err(InputError("e_unread"))
    ELSE Ok(IntVal(0))

\* the record expression of lines 298-300: the fields are evaluated in
\* declared order and the first empty one returns missing_field
RECURSIVE UnwrapFrom(_, _, _, _)
UnwrapFrom(unwraps, slots, i, acc) ==
    IF i > Len(unwraps) THEN Ok(acc)
    ELSE IF ~IsSome(slots[unwraps[i].var])
    THEN Err(MissingField(unwraps[i].missing_field))
    ELSE UnwrapFrom(unwraps, slots, i + 1,
                    Append(acc, [ident |-> unwraps[i].ident,
                                 value |-> Unwrap(slots[unwraps[i].var])]))

\* (variant) a field whose variable is empty is given a default value
RECURSIVE UnwrapOrDefaultFrom(_, _, _, _)
UnwrapOrDefaultFrom(unwraps, slots, i, acc) ==
    IF i > Len(unwraps) THEN Ok(acc)
    ELSE UnwrapOrDefaultFrom(unwraps, slots, i + 1,
             Append(acc, [ident |-> unwraps[i].ident,
                          value |-> IF IsSome(slots[unwraps[i].var])
                                    THEN Unwrap(slots[unwraps[i].var])
                                    ELSE IntVal(0)]))

ConstructDefault(art, slots) ==
    LET r == UnwrapOrDefaultFrom(art.field_unwraps, slots, 1, <<>>)
    IN Ok(StructVal(art.struct_name_str, Unwrap(r.value)))

Construct(art, slots) ==
    LET r == UnwrapFrom(art.field_unwraps, slots, 1, <<>>)
    IN IF r.ok THEN Ok(StructVal(art.struct_name_str, Unwrap(r.value))) ELSE r

\* (variant) no duplicate check: the last value wins
DuplicateCheckOff(arm, slots) == None

\* the i-th field's duplicate check (lines 178-180)
DuplicateCheck(arm, slots) ==
    IF IsSome(slots[arm.var]) THEN Some(DuplicateField(arm.duplicate_field)) ELSE None

\* The record type a nested field refers to: struct Inner<A: Allocator + Copy> { x: i32 },
\* which derives DeserializeIn as well.
InnerFields == <<MkField("x", None, "i32")>>
InnerBody == deserialize_struct_named(InnerFields, Some("A"), "Inner")

(***************************************************************************)
(* Generation: expand_derive_deserialize_in, one action per step.          *)
(***************************************************************************)
\* Ctxt::check: success only when nothing was recorded, otherwise every
\* recorded error, in recording order
CtxtCheck(errors) == IF errors = <<>> THEN None ELSE Some(errors)

ParamA == CHOOSE p \in ParamPool : p.ident = "A"

Handles == {"h1", "h2"}

GenInit ==
    /\ gpc = "start"
    /\ calls = <<>>
    /\ alloc_param = None
    /\ body = NoTokens
    /\ impl_block = NoImpl
    /\ result = NoResult

DecodeIdle ==
    /\ dpc = "Idle"
    /\ root_alloc = None
    /\ stack = <<>>
    /\ outcome = None
    /\ seeds = <<>>
    /\ key_reqs = 0
    /\ val_reqs = 0
    /\ struct_calls = <<>>
    /\ answer = NoAnswer

\* (variant) the Ctxt outlives the invocation: what an earlier invocation
\* recorded is still in it
FromAstKeptCtxt ==
    /\ gpc = "start"
    /\ calls' = Append(calls, "expand_derive_deserialize_in")
    /\ LET errors == prev.errors \o input.ast.errors
       IN IF ~input.ast.cont \/ IsSome(CtxtCheck(errors))
          THEN /\ result' = ErrResult(Unwrap(CtxtCheck(errors)))
               /\ gpc' = "done"
          ELSE /\ result' = result
               /\ gpc' = "find"
    /\ UNCHANGED <<input, alloc_param, body, impl_block, prev>>
    /\ UNCHANGED dvars

\* lines 11-18
FromAst ==
    /\ gpc = "start"
    /\ calls' = Append(calls, "expand_derive_deserialize_in")
    /\ IF ~input.ast.cont \/ IsSome(CtxtCheck(input.ast.errors))
       THEN /\ result' = ErrResult(Unwrap(CtxtCheck(input.ast.errors)))
            /\ gpc' = "done"
       ELSE /\ result' = result
            /\ gpc' = "find"
    /\ UNCHANGED <<input, alloc_param, body, impl_block, prev>>
    /\ UNCHANGED dvars

\* line 24
FindAllocatorParam ==
    /\ gpc = "find"
    /\ calls' = Append(calls, "find_allocator_param")
    /\ alloc_param' = find_allocator_param(input.generics)
    /\ gpc' = "body"
    /\ UNCHANGED <<input, body, impl_block, result, prev>>
    /\ UNCHANGED dvars

\* lines 26-33
Body ==
    /\ gpc = "body"
    /\ calls' = calls \o BodyCalls(input)
    /\ body' = BodyOf(input, alloc_param)
    /\ gpc' = "impl"
    /\ UNCHANGED <<input, alloc_param, impl_block, result, prev>>
    /\ UNCHANGED dvars

\* lines 35-72
ImplBlock ==
    /\ gpc = "impl"
    /\ impl_block' = ImplBlockOf(input, alloc_param, body)
    /\ gpc' = "wrap"
    /\ UNCHANGED <<input, calls, alloc_param, body, result, prev>>
    /\ UNCHANGED dvars

\* lines 74-77
Wrap ==
    /\ gpc = "wrap"
    /\ result' = OkResult(WrapInConst(impl_block))
    /\ gpc' = "done"
    /\ UNCHANGED <<input, calls, alloc_param, body, impl_block, prev>>
    /\ UNCHANGED dvars

NextGen == FromAst \/ FindAllocatorParam \/ Body \/ ImplBlock \/ Wrap

InitGen ==
    /\ input \in {Descriptor(g, d, a) : g \in GenericsPool, d \in DataPool, a \in AstPool}
    /\ GenInit
    /\ prev = NoResult
    /\ DecodeIdle

SpecGen == InitGen /\ [][NextGen]_vars

\* The macro is invoked once more on the same derive input: every local of
\* expand_derive_deserialize_in, the Ctxt of line 13 included, is made anew.
Rerun ==
    /\ gpc = "done"
    /\ dpc = "Idle"
    /\ prev' = result
    /\ gpc' = "start"
    /\ calls' = <<>>
    /\ alloc_param' = None
    /\ body' = NoTokens
    /\ impl_block' = NoImpl
    /\ result' = NoResult
    /\ UNCHANGED input
    /\ UNCHANGED dvars

NextRegen == NextGen \/ Rerun

SpecRegen == InitGen /\ [][NextRegen]_vars

(***************************************************************************)
(* Decoding: the emitted deserialize_in and visit_map as a state machine.  *)
(***************************************************************************)
ArtOf(ty) == IF ty = "Inner" THEN InnerBody ELSE body

\* the generated impl exists and its function body is a decoder
Usable ==
    /\ gpc = "done"
    /\ result.kind = "Ok"
    /\ result.tokens.inner.kind = "impl"
    /\ result.tokens.inner.body.kind = "decoder"

\* __Visitor { __alloc: __alloc } (line 310) entering visit_map
NewFrame(ty, alloc) ==
    [ty |-> ty, alloc |-> alloc, slots |-> <<>>, key |-> "", seen |-> <<>>]

Top == stack[Len(stack)]
SetTop(f) == [stack EXCEPT ![Len(stack)] = f]

SetLastVal(seen, tok) == [seen EXCEPT ![Len(seen)].val = tok]

\* returning an error with `?` leaves every active visit_map; what each
\* nested map had consumed stays part of what the outer map consumed
RECURSIVE Unwind(_)
Unwind(st) ==
    IF Len(st) <= 1 THEN st
    ELSE LET child == st[Len(st)]
             parent == st[Len(st) - 1]
             folded == [parent EXCEPT !.seen = SetLastVal(parent.seen, MapTok(child.seen))]
         IN Unwind(Append(SubSeq(st, 1, Len(st) - 2), folded))

Fail(st, e) ==
    /\ outcome' = Some(Err(e))
    /\ stack' = Unwind(st)
    /\ dpc' = "Failed"

StructCall(art, alloc) ==
    [name |-> art.struct_name_str, fields |-> art.fields_const, visitor_alloc |-> alloc]

TotalSize(st) ==
    LET F[i \in 0..Len(st)] == IF i = 0 THEN 0 ELSE F[i - 1] + Size(st[i].seen)
    IN F[Len(st)]

\* deserialize_in (lines 60-65) running the body's last expression, the
\* deserialize_struct call of lines 306-311; the input then either drives
\* visit_map or refuses because it holds no map.
DeserializeIn ==
    /\ Usable
    /\ dpc = "Idle"
    /\ \E h \in Handles, is_map \in BOOLEAN :
          /\ root_alloc' = Some(h)
          /\ struct_calls' = Append(struct_calls, StructCall(body, h))
          /\ answer' = StructAnswer(input.ident, IF is_map THEN MapTok(<<>>) ELSE IntTok(1))
          /\ IF is_map
             THEN /\ stack' = <<NewFrame(input.ident, h)>>
                  /\ dpc' = "Init"
                  /\ outcome' = outcome
             ELSE Fail(<<NewFrame(input.ident, h)>>, InputError("e_type"))
    /\ UNCHANGED <<seeds, key_reqs, val_reqs>>
    /\ UNCHANGED gvars

\* visit_map, line 287: the slots
VisitMapInit ==
    /\ dpc = "Init"
    /\ stack' = SetTop([Top EXCEPT !.slots = EmptySlots(ArtOf(Top.ty))])
    /\ dpc' = "Scanning"
    /\ UNCHANGED <<root_alloc, outcome, seeds, key_reqs, val_reqs, struct_calls, answer>>
    /\ UNCHANGED gvars

\* (variant) the loop does not stop at the end of the map
NextKeyAgain ==
    /\ dpc = "Scanning"
    /\ key_reqs' = key_reqs + 1
    /\ \/ /\ dpc' = "Scanning"
          /\ answer' = KeyAnswer(EndOfMap)
          /\ UNCHANGED <<stack, outcome>>
       \/ /\ TotalSize(stack) < MaxEntries
          /\ \E k \in KeyAnswers :
                LET seen == Append(Top.seen, Entry(k, Unread))
                IN /\ answer' = KeyAnswer(k)
                   /\ IF k.tag = "err"
                      THEN Fail(SetTop([Top EXCEPT !.seen = seen]), InputError(k.s))
                      ELSE LET variant == visit_str(ArtOf(Top.ty), k.s)
                           IN /\ stack' = SetTop([Top EXCEPT !.seen = seen, !.key = variant])
                              /\ dpc' = IF variant = IgnoreVariant THEN "Skip" ELSE "Accumulate"
                              /\ outcome' = outcome
    /\ UNCHANGED <<root_alloc, seeds, val_reqs, struct_calls>>
    /\ UNCHANGED gvars

\* line 289: next_key::<__Field>
NextKey ==
    /\ dpc = "Scanning"
    /\ key_reqs' = key_reqs + 1
    /\ \/ /\ dpc' = "Finalizing"
          /\ answer' = KeyAnswer(EndOfMap)
          /\ UNCHANGED <<stack, outcome>>
       \/ /\ TotalSize(stack) < MaxEntries
          /\ \E k \in KeyAnswers :
                LET seen == Append(Top.seen, Entry(k, Unread))
                IN /\ answer' = KeyAnswer(k)
                   /\ IF k.tag = "err"
                      THEN Fail(SetTop([Top EXCEPT !.seen = seen]), InputError(k.s))
                      ELSE LET variant == visit_str(ArtOf(Top.ty), k.s)
                           IN /\ stack' = SetTop([Top EXCEPT !.seen = seen, !.key = variant])
                              /\ dpc' = IF variant = IgnoreVariant THEN "Skip" ELSE "Accumulate"
                              /\ outcome' = outcome
    /\ UNCHANGED <<root_alloc, seeds, val_reqs, struct_calls>>
    /\ UNCHANGED gvars

\* lines 177-190: the arm of a field
Accumulate ==
    /\ dpc = "Accumulate"
    /\ LET arm == ArmFor(ArtOf(Top.ty), Top.key)
           dup == DuplicateCheck(arm, Top.slots)
           seed == MkSeed(arm, Top.alloc)
       IN IF IsSome(dup)
          THEN /\ Fail(stack, Unwrap(dup))
               /\ UNCHANGED <<seeds, val_reqs, struct_calls, answer>>
          ELSE /\ val_reqs' = val_reqs + 1
               /\ seeds' = Append(seeds, seed)
               /\ \E tok \in ValueAnswers :
                     LET d == SeedDeserialize(seed, tok)
                         read == [Top EXCEPT !.seen = SetLastVal(Top.seen, tok)]
                     IN /\ answer' = ValueAnswer(seed.ty, tok)
                        /\ CASE d.kind = "value" ->
                                  /\ stack' = SetTop([read EXCEPT !.slots[arm.var] = d.r.value])
                                  /\ dpc' = "Scanning"
                                  /\ UNCHANGED <<outcome, struct_calls>>
                             [] d.kind = "err" ->
                                  /\ Fail(SetTop(read), Unwrap(d.r.error))
                                  /\ UNCHANGED struct_calls
                             [] d.kind = "nested" ->
                                  /\ stack' = Append(SetTop(read), NewFrame(seed.ty, d.alloc))
                                  /\ struct_calls' =
                                        Append(struct_calls, StructCall(ArtOf(seed.ty), d.alloc))
                                  /\ dpc' = "Init"
                                  /\ outcome' = outcome
    /\ UNCHANGED <<root_alloc, key_reqs>>
    /\ UNCHANGED gvars

\* lines 292-294: the __ignore arm
Skip ==
    /\ dpc = "Skip"
    /\ val_reqs' = val_reqs + 1
    /\ \E tok \in ValueAnswers :
          LET r == IgnoredAny(tok)
              read == SetTop([Top EXCEPT !.seen = SetLastVal(Top.seen, tok)])
          IN /\ answer' = ValueAnswer("IgnoredAny", tok)
             /\ IF r.ok
                THEN /\ stack' = read
                     /\ dpc' = "Scanning"
                     /\ outcome' = outcome
                ELSE Fail(read, Unwrap(r.error))
    /\ UNCHANGED <<root_alloc, seeds, key_reqs, struct_calls>>
    /\ UNCHANGED gvars

\* lines 298-300: the record is built, or the first empty field is reported;
\* a nested record is the value its parent's next_value_seed returns
Finalize ==
    /\ dpc = "Finalizing"
    /\ LET r == Construct(ArtOf(Top.ty), Top.slots)
       IN IF ~r.ok THEN Fail(stack, Unwrap(r.error))
          ELSE IF Len(stack) = 1
          THEN /\ outcome' = Some(r)
               /\ dpc' = "Done"
               /\ stack' = stack
          ELSE LET parent == stack[Len(stack) - 1]
                   arm == ArmFor(ArtOf(parent.ty), parent.key)
                   filled == [parent EXCEPT
                                 !.slots[arm.var] = r.value,
                                 !.seen = SetLastVal(parent.seen, MapTok(Top.seen))]
               IN /\ stack' = Append(SubSeq(stack, 1, Len(stack) - 2), filled)
                  /\ dpc' = "Scanning"
                  /\ outcome' = outcome
    /\ UNCHANGED <<root_alloc, seeds, key_reqs, val_reqs, struct_calls, answer>>
    /\ UNCHANGED gvars

NextDecode == DeserializeIn \/ VisitMapInit \/ NextKey \/ Accumulate \/ Skip \/ Finalize

Next == NextGen \/ NextDecode

DecodeGenerics == {<<>>, <<ParamA>>}

Init ==
    /\ input \in {Descriptor(g, d, a) : g \in DecodeGenerics, d \in DataPool, a \in AstPool}
    /\ GenInit
    /\ prev = NoResult
    /\ DecodeIdle

Spec == Init /\ [][Next]_vars

\* Generation and the emitted decoder are straight-line synchronous code: a
\* step that can be taken is taken.
SpecLive == Init /\ [][Next]_vars /\ WF_vars(Next)

(***************************************************************************)
(* visit_map as a function of a whole map: the loop of lines 289-296       *)
(* followed by the record expression of lines 298-300.                     *)
(***************************************************************************)
RECURSIVE RunLoop(_, _, _, _, _)
RunLoop(art, alloc, entries, i, slots) ==
    IF i > Len(entries) THEN Construct(art, slots)
    ELSE IF entries[i].key.tag = "err" THEN Err(InputError(entries[i].key.s))
    ELSE LET variant == visit_str(art, entries[i].key.s)
             tok == entries[i].val
         IN IF variant = IgnoreVariant
            THEN IF IgnoredAny(tok).ok
                 THEN RunLoop(art, alloc, entries, i + 1, slots)
                 ELSE IgnoredAny(tok)
            ELSE LET arm == ArmFor(art, variant)
                     dup == DuplicateCheck(arm, slots)
                     seed == MkSeed(arm, alloc)
                     d == SeedDeserialize(seed, tok)
                     r == IF d.kind = "nested"
                          THEN RunLoop(ArtOf(seed.ty), d.alloc, tok.m, 1,
                                       EmptySlots(ArtOf(seed.ty)))
                          ELSE d.r
                 IN IF IsSome(dup) THEN Err(Unwrap(dup))
                    ELSE IF r.ok
                    THEN RunLoop(art, alloc, entries, i + 1,
                                 [slots EXCEPT ![arm.var] = r.value])
                    ELSE r

visit_map(art, alloc, entries) == RunLoop(art, alloc, entries, 1, EmptySlots(art))

(***************************************************************************)
(* Vocabulary of the properties.                                           *)
(***************************************************************************)
Terminal == dpc \in {"Done", "Failed"}

\* the top-level map as far as the input was read
RootSeen == stack[1].seen

\* the run entered visit_map (the input held a map)
InMap == stack # <<>> /\ key_reqs > 0

FieldsOf(ty) == IF ty = "Inner" THEN InnerFields ELSE input.data.fields
WireName(ty, i) == FieldsOf(ty)[i].deserialize_name
WireNames(ty) == {WireName(ty, i) : i \in DOMAIN FieldsOf(ty)}
BindingName(ty, i) == Unwrap(FieldsOf(ty)[i].ident)

\* the accumulator slot of the field at declared position i
Slot(frame, i) == frame.slots[Var(i)]

\* the declared position a key resolves to, 0 for an unknown key
Resolve(ty, k) ==
    IF k \in WireNames(ty)
    THEN CHOOSE i \in DOMAIN FieldsOf(ty) :
            /\ WireName(ty, i) = k
            /\ \A j \in DOMAIN FieldsOf(ty) : WireName(ty, j) = k => i <= j
    ELSE 0

\* the declared position of the field the pending key of a frame stands for
PendingPos(frame) ==
    CHOOSE i \in DOMAIN FieldsOf(frame.ty) : Variant(i) = frame.key

DistinctWireNames(ty) ==
    \A i, j \in DOMAIN FieldsOf(ty) : i # j => WireName(ty, i) # WireName(ty, j)

Orders(n) == {f \in [1..n -> 1..n] : \A i, j \in 1..n : i # j => f[i] # f[j]}
Permute(entries, f) == [i \in DOMAIN entries |-> entries[f[i]]]

\* the key of an entry is read and its value decodes without error where
\* the key sends it
ValueDecodes(art, alloc, e) ==
    /\ e.key.tag = "str"
    /\ LET variant == visit_str(art, e.key.s)
       IN IF variant = IgnoreVariant THEN IgnoredAny(e.val).ok
          ELSE LET seed == MkSeed(ArmFor(art, variant), alloc)
                   d == SeedDeserialize(seed, e.val)
               IN IF d.kind = "nested"
                  THEN visit_map(ArtOf(seed.ty), d.alloc, e.val.m).ok
                  ELSE d.r.ok

\* The map, as far as the run read it, is the read part of a map in which
\* every field's wire name is the key of exactly one entry and every value
\* decodes: a value the decoder did not ask for (Unread) is left open, and a
\* map whose values were all read was read to its end, so it holds every
\* wire name.
WellFormed(art, alloc, entries) ==
    /\ \A j \in DOMAIN entries :
          entries[j].val = Unread \/ ValueDecodes(art, alloc, entries[j])
    /\ \A j \in DOMAIN entries : entries[j].key.tag = "str"
    /\ \A i \in DOMAIN FieldsOf("Rec") :
          LET n == Cardinality({j \in DOMAIN entries :
                                  entries[j].key = StrKey(WireName("Rec", i))})
          IN IF \A j \in DOMAIN entries : entries[j].val # Unread
             THEN n = 1 ELSE n <= 1

OrderIndependent ==
    /\ dpc = "Done"
    /\ \A f \in Orders(Len(RootSeen)) :
          Some(visit_map(body, Unwrap(root_alloc), Permute(RootSeen, f))) = outcome

(***************************************************************************)
(* C1 as stated.  For every named-field record and every input map that    *)
(* holds each field's wire name exactly once and whose values decode,      *)
(* decoding reaches Done and gives the same record for every order of the  *)
(* map's entries.                                                          *)
(***************************************************************************)
C1_AnyRecordOrderIndependent ==
    (Terminal /\ InMap /\ WellFormed(body, Unwrap(root_alloc), RootSeen))
        => OrderIndependent

(***************************************************************************)
(* The same for the records whose fields' wire names are pairwise          *)
(* distinct: what C1 says apart from the records of C17.                   *)
(***************************************************************************)
C1_OrderIndependence ==
    (Terminal /\ InMap /\ DistinctWireNames("Rec")
       /\ WellFormed(body, Unwrap(root_alloc), RootSeen))
        => OrderIndependent

\* a record of two fields decoded from a map that names the second field first
C1_Witness ==
    /\ dpc = "Done"
    /\ Len(FieldsOf("Rec")) = 2
    /\ DistinctWireNames("Rec")
    /\ WellFormed(body, Unwrap(root_alloc), RootSeen)
    /\ Len(RootSeen) = 2
    /\ RootSeen[1].key = StrKey(WireName("Rec", 2))
    /\ RootSeen[1].val # RootSeen[2].val

\* The state machine and the function of the whole map agree on every run.
RunAgrees ==
    (Terminal /\ InMap) => outcome = Some(visit_map(body, Unwrap(root_alloc), RootSeen))

\* the lowest declared position of a frame whose slot is empty
EmptyPositions(frame) == {i \in DOMAIN FieldsOf(frame.ty) : ~IsSome(Slot(frame, i))}
LowestEmpty(frame) ==
    CHOOSE i \in EmptyPositions(frame) : \A j \in EmptyPositions(frame) : i <= j

\* the error of a failed run
ErrorOf(o) == Unwrap(Unwrap(o).error)

\* a request was made of the input in this step
Requested ==
    \/ key_reqs' # key_reqs
    \/ val_reqs' # val_reqs
    \/ struct_calls' # struct_calls

\* the error the input raised in an answer, "" when it raised none: a key it
\* cannot read, a value it cannot read, or a value of another type than the
\* one asked for
Raised(a) ==
    IF a.req = "key" THEN (IF a.key.tag = "err" THEN a.key.s ELSE "")
    ELSE IF a.req \in {"value", "struct"}
    THEN IF a.val.tag = "bad" THEN a.val.e
         ELSE IF a.ty = "IgnoredAny" THEN ""
         ELSE IF a.ty = "i32" THEN (IF a.val.tag = "int" THEN "" ELSE "e_type")
         ELSE IF a.val.tag = "map" THEN "" ELSE "e_type"
    ELSE ""

(***************************************************************************)
(* C2.  When the input reports exhaustion and some slot is still empty,    *)
(* the decode fails with MissingField of the wire name of the lowest       *)
(* declared position whose slot is empty.                                  *)
(***************************************************************************)
C2_MissingField ==
    [][(dpc = "Finalizing" /\ EmptyPositions(Top) # {})
          => /\ dpc' = "Failed"
             /\ outcome' = Some(Err(MissingField(WireName(Top.ty, LowestEmpty(Top)))))]_vars

\* a renamed field is the lowest missing one of two
C2_Witness ==
    /\ dpc = "Failed"
    /\ Len(stack) = 1
    /\ answer = KeyAnswer(EndOfMap)
    /\ Len(FieldsOf("Rec")) = 2
    /\ IsSome(FieldsOf("Rec")[1].rename)
    /\ EmptyPositions(stack[1]) = {1, 2}
    /\ outcome = Some(Err(MissingField(WireName("Rec", 1))))

\* fields {x, y} and the map {"x": 1}
C2_WitnessExample ==
    /\ dpc = "Failed"
    /\ [i \in DOMAIN FieldsOf("Rec") |-> WireName("Rec", i)] = <<"x", "y">>
    /\ Len(RootSeen) = 1
    /\ RootSeen[1].key = StrKey("x")
    /\ outcome = Some(Err(MissingField("y")))

(***************************************************************************)
(* C3.  When a key resolves to a field whose slot is already filled, the   *)
(* decode fails with DuplicateField of that field's wire name.             *)
(***************************************************************************)
C3_DuplicateWireName ==
    [][(dpc = "Accumulate" /\ IsSome(Slot(Top, PendingPos(Top))))
          => /\ dpc' = "Failed"
             /\ outcome' =
                   Some(Err(DuplicateField(WireName(Top.ty, PendingPos(Top)))))]_vars

(***************************************************************************)
(* C4.  The Skip step consumes exactly one value, leaves every slot as it  *)
(* is and returns to Scanning; and the outcome of a decode is the outcome  *)
(* of decoding the same map without its entries of unknown keys.           *)
(***************************************************************************)
SlotsOf(st) == [i \in DOMAIN st |-> st[i].slots]

UnknownKey(e) == e.key.tag = "str" /\ e.key.s \notin WireNames("Rec")

WithoutUnknown(entries) ==
    LET F[i \in 0..Len(entries)] ==
            IF i = 0 THEN <<>>
            ELSE IF UnknownKey(entries[i]) THEN F[i - 1]
            ELSE Append(F[i - 1], entries[i])
    IN F[Len(entries)]

Consumable(tok) == tok.tag \in {"int", "map"}

SkipStep ==
    dpc = "Skip"
        => /\ val_reqs' = val_reqs + 1
           /\ key_reqs' = key_reqs
           /\ seeds' = seeds
           /\ Consumable(answer'.val)
                 => (dpc' = "Scanning" /\ SlotsOf(stack') = SlotsOf(stack) /\ outcome' = outcome)

SameWithoutUnknown ==
    (Terminal /\ InMap
       /\ \A j \in DOMAIN RootSeen : UnknownKey(RootSeen[j]) => Consumable(RootSeen[j].val))
        => outcome = Some(visit_map(body, Unwrap(root_alloc), WithoutUnknown(RootSeen)))

C4_UnknownKeysSkipped == []SameWithoutUnknown /\ [][SkipStep]_vars

\* fields {x, y} decoded from a map of three entries, one of them unknown
C4_Witness ==
    /\ dpc = "Done"
    /\ Len(FieldsOf("Rec")) = 2
    /\ Len(RootSeen) = 3
    /\ Len(WithoutUnknown(RootSeen)) = 2
    /\ UnknownKey(RootSeen[2])

(***************************************************************************)
(* C5.  A failed decode surfaces DuplicateField(n) or MissingField(n) with *)
(* n a wire name of the container, or the error the input raised.          *)
(***************************************************************************)
ClosedError ==
    (dpc # "Failed" /\ dpc' = "Failed")
        => LET e == ErrorOf(outcome')
           IN \/ /\ e.kind \in {"duplicate_field", "missing_field"}
                 /\ stack # <<>>
                 /\ e.name \in WireNames(Top.ty)
              \/ /\ e.kind = "input"
                 /\ Requested
                 /\ Raised(answer') # ""
                 /\ e = InputError(Raised(answer'))

C5_ClosedErrorSet == [][ClosedError]_vars

(***************************************************************************)
(* C6.  The first error (an input error on a key or on a value, or a       *)
(* duplicate key) moves the machine to Failed in the same step with that   *)
(* error as the result; a duplicate is reported without a value being      *)
(* requested and also when another field is still missing; nothing happens *)
(* after Done or Failed.                                                   *)
(***************************************************************************)
FailFastStep ==
    /\ ~Terminal
    /\ (Requested /\ Raised(answer') # "")
          => (dpc' = "Failed" /\ outcome' = Some(Err(InputError(Raised(answer')))))
    /\ (dpc = "Accumulate" /\ IsSome(Slot(Top, PendingPos(Top))))
          => /\ dpc' = "Failed"
             /\ ErrorOf(outcome').kind = "duplicate_field"
             /\ ~Requested
    /\ (dpc' = "Failed") => (IsSome(outcome') /\ ~Unwrap(outcome').ok)
    /\ (dpc' = "Done") => (IsSome(outcome') /\ Unwrap(outcome').ok)
    /\ (dpc' \notin {"Done", "Failed"}) => outcome' = None

C6_FailFast == [][FailFastStep]_vars

\* a duplicate key reported while another field is still missing
C6_Witness ==
    /\ dpc = "Failed"
    /\ Len(stack) = 1
    /\ ErrorOf(outcome).kind = "duplicate_field"
    /\ EmptyPositions(stack[1]) # {}
    /\ Len(RootSeen) = 2
    /\ RootSeen[2].val = Unread

(***************************************************************************)
(* C7.  Every value decode is given a seed whose allocator handle equals   *)
(* the handle the container's decode call received, nested decodes         *)
(* included, and the handle of every visitor stays that handle.            *)
(***************************************************************************)
C7_AllocatorThreading ==
    IsSome(root_alloc)
        => /\ \A i \in DOMAIN seeds : seeds[i].alloc = Unwrap(root_alloc)
           /\ \A i \in DOMAIN stack : stack[i].alloc = Unwrap(root_alloc)
           /\ \A i \in DOMAIN struct_calls :
                 struct_calls[i].visitor_alloc = Unwrap(root_alloc)

\* two field decodes, one of them a nested record that decoded a field itself
C7_Witness ==
    /\ dpc = "Done"
    /\ Len(struct_calls) = 2
    /\ Len(seeds) = 3

(***************************************************************************)
(* Vocabulary of the generation properties.                                *)
(***************************************************************************)
\* Container::from_ast gave a container and recorded no error
Loaded == input.ast.cont /\ input.ast.errors = <<>>

\* a type parameter one of whose bounds is the trait Allocator
AllocCapable(p) ==
    /\ p.kind = "Type"
    /\ \E b \in Range(p.bounds) :
          b.kind = "Trait" /\ b.path # <<>> /\ b.path[Len(b.path)] = "Allocator"

NoAllocParam == \A i \in DOMAIN input.generics : ~AllocCapable(input.generics[i])

UnsupportedShape == input.data.kind = "Enum" \/ input.data.style # "Struct"

Emitted == result.tokens.inner

\* the compile_error! messages of the output, in output order
Messages ==
    IF Emitted.kind = "compile_error" THEN <<Emitted.msg>>
    ELSE IF Emitted.body.kind = "compile_error" THEN <<Emitted.body.msg>>
    ELSE <<>>

IsMissingAllocatorParam(m) == m \in {MsgNoAllocBound, MsgAllocRequired}
IsUnsupportedShape(m) == m \in {MsgNotNamed, MsgEnum}

\* no identifier decoder, seed decoder or map visitor in the output
NoStateMachine ==
    /\ Emitted.body.seed = <<>>
    /\ Emitted.body.field_enum = <<>>
    /\ Emitted.body.field_match_arms = <<>>
    /\ Emitted.body.visitor = <<>>
    /\ Emitted.body.visit_map_arms = <<>>

(***************************************************************************)
(* C8.  A descriptor none of whose generic parameters has an allocator     *)
(* bound, whatever its shape, yields the failure MissingAllocatorParam:    *)
(* the output is the failure sentinel alone, with no impl block, no        *)
(* identifier decoder and no visitor.                                      *)
(***************************************************************************)
C8_MissingAllocatorParam ==
    (gpc = "done" /\ Loaded /\ NoAllocParam)
        => /\ result.kind = "Ok"
           /\ Emitted.kind = "compile_error"
           /\ Messages = <<MsgNoAllocBound>>
           /\ Emitted.params = <<>>
           /\ Emitted.body = NoTokens

\* a named-field record with fields whose only parameters are a plain type
\* parameter and one bound by another trait
C8_Witness ==
    /\ gpc = "done"
    /\ Loaded
    /\ NoAllocParam
    /\ Len(input.generics) = 2
    /\ \A i \in DOMAIN input.generics : input.generics[i].kind = "Type"
    /\ input.data.style = "Struct"
    /\ Len(input.data.fields) = 2
    /\ Emitted.kind = "compile_error"

(***************************************************************************)
(* C9.  A descriptor declared as an enum or as a record that is not        *)
(* named-field yields the failure UnsupportedShape and no decode state     *)
(* machine.                                                                *)
(***************************************************************************)
C9_UnsupportedShape ==
    (gpc = "done" /\ Loaded /\ UnsupportedShape)
        => /\ \E i \in DOMAIN Messages : IsUnsupportedShape(Messages[i])
           /\ NoStateMachine

(***************************************************************************)
(* C10.  A descriptor that both lacks an allocator parameter and has an    *)
(* unsupported shape has both failures in the output, MissingAllocatorParam*)
(* then UnsupportedShape.                                                  *)
(***************************************************************************)
C10_ErrorsAggregated ==
    (gpc = "done" /\ Loaded /\ NoAllocParam /\ UnsupportedShape)
        => /\ Len(Messages) = 2
           /\ IsMissingAllocatorParam(Messages[1])
           /\ IsUnsupportedShape(Messages[2])

(***************************************************************************)
(* C11.  A decoder is emitted only when the selected allocator parameter   *)
(* is declared with the allocator bound and with the Copy bound; when the  *)
(* selected parameter is not declared Copy, no decoder is emitted.         *)
(***************************************************************************)
ParamNamed(ident) ==
    CHOOSE p \in Range(input.generics) : p.ident = ident

\* a type parameter one of whose declared bounds is the trait Copy
Duplicable(p) ==
    /\ p.kind = "Type"
    /\ \E b \in Range(p.bounds) :
          b.kind = "Trait" /\ b.path # <<>> /\ b.path[Len(b.path)] = "Copy"

DecoderEmitted ==
    /\ result.kind = "Ok"
    /\ Emitted.kind = "impl"
    /\ Emitted.body.kind = "decoder"

C11_AllocatorDuplicable ==
    (gpc = "done" /\ DecoderEmitted)
        => /\ IsSome(alloc_param)
           /\ AllocCapable(ParamNamed(Unwrap(alloc_param)))
           /\ Duplicable(ParamNamed(Unwrap(alloc_param)))

(***************************************************************************)
(* C12.  For a named-field record whose decoder was emitted, the constant  *)
(* __FIELDS is the list of the fields' wire names in declared order, the   *)
(* registered name is the record's name, a decode calls deserialize_struct *)
(* exactly once with that name, that list and a visitor holding the        *)
(* caller's handle, and the same wire names are the patterns of the        *)
(* identifier decoder and the names given to missing_field and to          *)
(* duplicate_field.                                                        *)
(***************************************************************************)
WireNameList(ty) == [i \in DOMAIN FieldsOf(ty) |-> WireName(ty, i)]

C12_RegisteredNames ==
    Usable
        => /\ body.fields_const = WireNameList("Rec")
           /\ body.struct_name_str = input.ident
           /\ (dpc # "Idle")
                 => /\ struct_calls # <<>>
                    /\ struct_calls[1] = [name |-> input.ident,
                                          fields |-> WireNameList("Rec"),
                                          visitor_alloc |-> Unwrap(root_alloc)]
                    /\ Cardinality({i \in DOMAIN struct_calls :
                                       struct_calls[i].name = input.ident}) = 1
           /\ \A i \in DOMAIN FieldsOf("Rec") :
                 /\ body.field_match_arms[i].pat = WireName("Rec", i)
                 /\ body.field_unwraps[i].missing_field = WireName("Rec", i)
                 /\ body.visit_map_arms[i].duplicate_field = WireName("Rec", i)

CapablePositions == {i \in DOMAIN input.generics : AllocCapable(input.generics[i])}

FirstCapable == CHOOSE i \in CapablePositions : \A j \in CapablePositions : i <= j

\* find_allocator_param has returned in this invocation
Searched == gpc \in {"body", "impl", "wrap"} \/ (gpc = "done" /\ result.kind = "Ok")

Entered(d) ==
    /\ ~(d = Len(stack) /\ dpc = "Init")
    /\ ~(dpc = "Failed" /\ answer.req = "struct")

SlotVars(ty) == {Var(i) : i \in DOMAIN FieldsOf(ty)}

OneSlotPerField ==
    \A d \in DOMAIN stack :
        Entered(d) => /\ DOMAIN stack[d].slots = SlotVars(stack[d].ty)
                      /\ Cardinality(DOMAIN stack[d].slots) = Len(FieldsOf(stack[d].ty))

SlotStep ==
    /\ (dpc = "Init")
          => /\ Len(stack') = Len(stack)
             /\ DOMAIN stack'[Len(stack)].slots = SlotVars(Top.ty)
             /\ \A v \in SlotVars(Top.ty) : stack'[Len(stack)].slots[v] = None
    /\ \A d \in DOMAIN stack \cap DOMAIN stack' :
          Entered(d)
             => /\ stack'[d].ty = stack[d].ty
                /\ DOMAIN stack'[d].slots = DOMAIN stack[d].slots
                /\ \A v \in DOMAIN stack[d].slots :
                      stack'[d].slots[v] # stack[d].slots[v]
                         => (stack[d].slots[v] = None /\ IsSome(stack'[d].slots[v]))
    /\ (dpc = "Accumulate" /\ IsSome(Slot(Top, PendingPos(Top))))
          => /\ dpc' = "Failed"
             /\ val_reqs' = val_reqs
             /\ seeds' = seeds
             /\ answer' = answer

C15_SlotDiscipline == []OneSlotPerField /\ [][SlotStep]_vars

\* both fields filled, then a key of the first field again: its value stays unread
C15_Witness ==
    /\ dpc = "Failed"
    /\ Len(stack) = 1
    /\ Len(FieldsOf("Rec")) = 2
    /\ Len(RootSeen) = 3
    /\ EmptyPositions(stack[1]) = {}
    /\ RootSeen[3].key = RootSeen[1].key
    /\ RootSeen[3].val = Unread
    /\ Slot(stack[1], 1) = Some(IntVal(RootSeen[1].val.n))
    /\ val_reqs = 2

(***************************************************************************)
(* C16.  Done is reached only from Finalizing, after the input reported    *)
(* the end of the map, with no error and every slot filled; the record     *)
(* then holds, at each declared position, the value of that position's     *)
(* slot, which is the value decoded from the one entry whose key resolved  *)
(* to that field; no field is empty or defaulted.                          *)
(***************************************************************************)
\* the entries of a map whose key resolves to the field at position i
EntriesFor(ty, entries, i) ==
    {j \in DOMAIN entries : entries[j].key.tag = "str" /\ Resolve(ty, entries[j].key.s) = i}

\* the record a map stands for, and the value a token stands for at a type
RECURSIVE RecordOf(_, _)
RECURSIVE ValueOf(_, _)
RecordOf(ty, entries) ==
    StructVal(ty, [i \in DOMAIN FieldsOf(ty) |->
                      [ident |-> BindingName(ty, i),
                       value |-> ValueOf(FieldsOf(ty)[i].ty,
                                         entries[CHOOSE j \in EntriesFor(ty, entries, i) : TRUE].val)]])
ValueOf(fty, tok) == IF fty = "i32" THEN IntVal(tok.n) ELSE RecordOf(fty, tok.m)

DoneComplete ==
    dpc = "Done"
        => /\ answer = KeyAnswer(EndOfMap)
           /\ Len(stack) = 1
           /\ \A j \in DOMAIN RootSeen : ValueDecodes(body, Unwrap(root_alloc), RootSeen[j])
           /\ EmptyPositions(stack[1]) = {}
           /\ \A i \in DOMAIN FieldsOf("Rec") :
                 Cardinality(EntriesFor("Rec", RootSeen, i)) = 1
           /\ outcome = Some(Ok(RecordOf("Rec", RootSeen)))
           /\ LET rec == Unwrap(Unwrap(outcome).value)
              IN /\ Len(rec.fields) = Len(FieldsOf("Rec"))
                 /\ \A i \in DOMAIN FieldsOf("Rec") :
                       /\ rec.fields[i].ident = BindingName("Rec", i)
                       /\ Some(rec.fields[i].value) = Slot(stack[1], i)

DoneStep == (dpc # "Done" /\ dpc' = "Done") => (dpc = "Finalizing" /\ Len(stack) = 1)

C16_CompleteConstruction == []DoneComplete /\ [][DoneStep]_vars

\* a record of an integer and a nested record, the nested one first in the map
C16_Witness ==
    /\ dpc = "Done"
    /\ Len(FieldsOf("Rec")) = 2
    /\ FieldsOf("Rec")[2].ty = "Inner"
    /\ Len(RootSeen) = 2
    /\ RootSeen[1].key = StrKey(WireName("Rec", 2))
    /\ Len(RootSeen[1].val.m) = 1
    /\ RootSeen[2].val = IntTok(2)

(***************************************************************************)
(* C17.  The emitted identifier decoder maps the wire name of every field  *)
(* to the variant of that field's position, every other string to          *)
(* __ignore, and no key to a field of another wire name; a pending key of  *)
(* a decode run is the variant its key string is mapped to.  Records with  *)
(* two fields of one wire name are included.                               *)
(***************************************************************************)
KeyResolution(ty) ==
    /\ \A i \in DOMAIN FieldsOf(ty) : visit_str(ArtOf(ty), WireName(ty, i)) = Variant(i)
    /\ \A k \in KeyStrings :
          /\ k \notin WireNames(ty) => visit_str(ArtOf(ty), k) = IgnoreVariant
          /\ \A i \in DOMAIN FieldsOf(ty) :
                visit_str(ArtOf(ty), k) = Variant(i) => WireName(ty, i) = k
          /\ visit_str(ArtOf(ty), k) \in Range(ArtOf(ty).field_enum)

C17_KeyResolution ==
    Usable
        => /\ KeyResolution("Rec")
           /\ KeyResolution("Inner")
           /\ (dpc \in {"Accumulate", "Skip"})
                 => Top.key = visit_str(ArtOf(Top.ty), Last(Top.seen).key.s)

\* The same, for the records whose wire names are pairwise distinct.
KeyResolutionDistinct ==
    (Usable /\ DistinctWireNames("Rec")) => C17_KeyResolution

(***************************************************************************)
(* C18.  A visit_map that has started ends in Done or Failed.  A key is    *)
(* requested once per entry of the map and once more for its end, a value  *)
(* is requested only for the key just received and at most once, and       *)
(* Finalizing is entered only on the input's report that the map has       *)
(* ended, after which that map is asked for nothing more.                  *)
(***************************************************************************)
PendingKey == answer.req = "key" /\ answer.key.tag = "str"

KeyValueStep ==
    /\ key_reqs' \in {key_reqs, key_reqs + 1}
    /\ val_reqs' \in {val_reqs, val_reqs + 1}
    /\ ~(key_reqs' # key_reqs /\ val_reqs' # val_reqs)
    /\ (key_reqs' # key_reqs)
          => /\ ~PendingKey
             /\ answer'.req = "key"
             /\ IF answer'.key = EndOfMap
                THEN TotalSize(stack') = TotalSize(stack) /\ dpc' = "Finalizing"
                ELSE TotalSize(stack') = TotalSize(stack) + 1
    /\ (val_reqs' # val_reqs)
          => /\ PendingKey
             /\ answer'.req = "value"
             /\ TotalSize(stack') = TotalSize(stack)
    /\ (dpc # "Finalizing" /\ dpc' = "Finalizing") => answer' = KeyAnswer(EndOfMap)
    /\ (dpc = "Finalizing")
          => /\ key_reqs' = key_reqs
             /\ val_reqs' = val_reqs
             /\ Len(stack') <= Len(stack)
             /\ (Len(stack') = Len(stack)) => dpc' \in {"Done", "Failed"}

\* over a whole run: one key request per entry and one per map entered, at
\* most one value request per entry
RequestBound ==
    (Terminal /\ InMap)
        => /\ key_reqs <= Size(RootSeen) + Len(struct_calls)
           /\ val_reqs <= Size(RootSeen)

Terminates == (dpc = "Init") ~> Terminal

C18_Termination == Terminates /\ []RequestBound /\ [][KeyValueStep]_vars

\* a run over a map of three entries, the map of a nested record among them
C18_Witness ==
    /\ dpc = "Done"
    /\ Size(RootSeen) = 3
    /\ Len(struct_calls) = 2
    /\ key_reqs = 5
    /\ val_reqs = 3

(***************************************************************************)
(* C19.  deserialize_struct and deserialize_struct_named are entered only  *)
(* when the analysis succeeded: the diagnostics check passed, an allocator *)
(* parameter was found and the shape is a named-field record.  When the    *)
(* diagnostics context holds an error the invocation returns the recorded  *)
(* errors together and no artifact.                                        *)
(***************************************************************************)
EmitterInvoked ==
    \E i \in DOMAIN calls : calls[i] \in {"deserialize_struct", "deserialize_struct_named"}

AnalysisSucceeded == Loaded /\ ~NoAllocParam /\ ~UnsupportedShape

C19_AnalyzeBeforeEmit ==
    /\ EmitterInvoked => AnalysisSucceeded
    /\ (gpc = "done" /\ ~Loaded)
          => /\ result = ErrResult(input.ast.errors)
             /\ ~EmitterInvoked

\* The part of C19 about the diagnostics context alone.
DiagnosticsFirst ==
    /\ EmitterInvoked => Loaded
    /\ (gpc = "done" /\ ~Loaded)
          => /\ result = ErrResult(input.ast.errors)
             /\ ~EmitterInvoked

(***************************************************************************)
(* C20.  For a named-field record with an allocator parameter, the impl    *)
(* header lists '__de, then every other generic parameter once in          *)
(* declaration order, then the allocator parameter once; and the Value     *)
(* type of the emitted visitor is the type the impl is written for, the    *)
(* record applied to all of its generic parameters.                        *)
(***************************************************************************)
\* the identifiers of the parameters other than the one named a, in order
OthersOf(generics, a) ==
    LET F[i \in 0..Len(generics)] ==
            IF i = 0 THEN <<>>
            ELSE IF generics[i].ident = a THEN F[i - 1]
            ELSE Append(F[i - 1], generics[i].ident)
    IN F[Len(generics)]

Occurrences(seq, x) == Cardinality({i \in DOMAIN seq : seq[i] = x})

HeaderConsistent ==
    LET a == Unwrap(alloc_param)
    IN /\ Emitted.params = <<"'__de">> \o OthersOf(input.generics, a) \o <<a>>
       /\ \A i \in DOMAIN input.generics :
             Occurrences(Emitted.params, input.generics[i].ident) = 1
       /\ Last(Emitted.params) = a
       /\ Emitted.self_ty = [ident |-> input.ident,
                             args |-> [i \in DOMAIN input.generics |->
                                          input.generics[i].ident]]

ValueIsSelf == Unwrap(Emitted.body.visitor).value_ty = Emitted.self_ty

C20_GenericsConsistent ==
    (gpc = "done" /\ DecoderEmitted) => (HeaderConsistent /\ ValueIsSelf)

\* The part of C20 about the impl header alone.
HeaderHolds == (gpc = "done" /\ DecoderEmitted) => HeaderConsistent

\* The whole of C20 for the records whose only generic parameter is the allocator.
ValueIsSelfAlone ==
    (gpc = "done" /\ DecoderEmitted /\ Len(input.generics) = 1) => ValueIsSelf

====
